---- MODULE Spec2Model ----
(***************************************************************************)
(* The two WebCrawler classes of web_crawler_tool: main.py (dict result,   *)
(* visited set marked before the fetch, link filter is_valid_url) and      *)
(* crawler.py (list result kept on the instance, visited set marked after  *)
(* a successful fetch, domain filter in _crawl).  One instance is          *)
(* modelled; impl says of which class it is.  A crawl invocation runs      *)
(* idle -> loop -> fetch -> (sleep ->) loop ... -> done, and the instance  *)
(* can be invoked again after it returned.  A second instance, when there  *)
(* is one, is parked in "other" and takes the floor at the await points.   *)
(***************************************************************************)
EXTENDS Integers, Sequences, FiniteSets, TLC

\* Bounds of the model.
MaxPages == 3     \* max_pages ranges over 0..MaxPages
MaxDepth == 2     \* the depth argument of crawl ranges over 0..MaxDepth
MaxLinks == 2     \* anchors per fetched page
PairPages == 2    \* max_pages of each of two concurrent instances ranges over 0..PairPages
PairDepth == 1    \* the depth argument of two concurrent crawls ranges over 0..PairDepth

----------------------------------------------------------------------------
\* URLs.  A URL is what urlparse makes of it: scheme, netloc and path; the
\* path is a sequence of pieces so that "ext in path" (a substring test) and
\* "path ends in ext" are different questions.

Exts == {".pdf", ".doc", ".docx", ".jpg", ".png", ".gif", ".zip", ".rar"}

Url(s, n, p) == [scheme |-> s, netloc |-> n, path |-> p]

HomeA    == Url("https", "example.com", <<"/">>)
AboutA   == Url("https", "example.com", <<"/about">>)
PdfA     == Url("https", "example.com", <<"/file", ".pdf">>)
HomeB    == Url("https", "other.com", <<"/">>)

\* The URLs a caller starts a crawl from.
URLs == {HomeA, AboutA, PdfA, HomeB}

\* The start URLs of two concurrent crawls: two pages of one site.
PairURLs == {HomeA, AboutA}

\* href attributes a page can carry: absolute URLs and absolute-path
\* references (no scheme, no netloc), as in the scenario <a href="/about">,
\* <a href="https://other.com">, <a href="/file.pdf">.
RelContact == Url("", "", <<"/contact">>)
RelPdf     == Url("", "", <<"/file", ".pdf">>)
Hrefs == {HomeA, HomeB, RelContact, RelPdf}

SeqUpTo(S, n) == UNION {[1..k -> S] : k \in 0..n}

\* urljoin(base, href) for the hrefs above.
urljoin(base, href) ==
    IF href.scheme # "" THEN href
    ELSE Url(base.scheme, base.netloc, href.path)

\* any(ext in parsed_url.path for ext in [...])
HasResourceExt(u) == \E i \in 1..Len(u.path) : u.path[i] \in Exts

\* Mutant: the netloc comparison left out.
is_valid_url_anyhost(url, base_url) ==
    /\ url.scheme \in {"http", "https"}
    /\ ~HasResourceExt(url)

\* main.py is_valid_url(url, base_url)
is_valid_url(url, base_url) ==
    /\ url.scheme \in {"http", "https"}
    /\ url.netloc = base_url.netloc
    /\ ~HasResourceExt(url)

\* The text of a page: whether it is the empty string, and its anchors' hrefs
\* in document order.  NoneVal is Python's None.
Html(ne, hs) == [none |-> FALSE, nonempty |-> ne, hrefs |-> hs]
NoneVal      == [none |-> TRUE, nonempty |-> FALSE, hrefs |-> <<>>]
EmptyStr     == Html(FALSE, <<>>)
Pages        == {Html(TRUE, hs) : hs \in SeqUpTo(Hrefs, MaxLinks)}

\* "if html" / "if not html"
Truthy(h) == ~h.none /\ h.nonempty

\* What session.get does: raises (timeout, transport error, closed session),
\* or answers with a status and a text.
Response(k, t) == [kind |-> k, text |-> t]
Responses ==
    {Response("exc", EmptyStr), Response("status", EmptyStr)}
        \cup {Response("ok200", t) : t \in Pages \cup {EmptyStr}}

\* What a session in state s can answer: a closed session raises.
SessionGet(s) ==
    IF s = "open" THEN Responses ELSE {Response("exc", EmptyStr)}

\* The answers an unchanged site with deterministic outcomes has given so
\* far: known is a set of <<url, response>> pairs.
Recorded(known, u) == {p[2] : p \in {q \in known : q[1] = u}}

\* What session.get(u) can answer on a session in state s, the site having
\* answered as in known: a recorded answer is repeated.
Answers(s, known, u) ==
    IF s = "open" /\ Recorded(known, u) # {} THEN Recorded(known, u)
    ELSE SessionGet(s)

\* fetch_url / fetch: the text on status 200, None otherwise.
fetch_url(resp) == IF resp.kind = "ok200" THEN resp.text ELSE NoneVal

\* urljoin(base_url, href) for every anchor, in document order
Resolved(html, base_url) ==
    [i \in 1..Len(html.hrefs) |-> urljoin(base_url, html.hrefs[i])]

\* main.py extract_links(html, base_url)
extract_links_main(html, base_url) ==
    SelectSeq(Resolved(html, base_url),
              LAMBDA u : is_valid_url(u, base_url))

\* crawler.py extract_links(html, base_url)
extract_links_crawler(html, base_url) ==
    SelectSeq(Resolved(html, base_url),
              LAMBDA u : u.scheme \in {"http", "https"})

Task(u, d) == [url |-> u, depth |-> d]

\* (link, d) for every link, in order
Tasks(links, d) == [i \in 1..Len(links) |-> Task(links[i], d)]

\* Mutant: <= for <.
LoopCond_le(q, v, mp) == q # <<>> /\ Cardinality(v) <= mp

\* while queue and len(self.visited_urls) < self.max_pages
LoopCond(q, v, mp) == q # <<>> /\ Cardinality(v) < mp

\* if url in self.visited_urls or current_depth > depth: continue
SkipTask_ge(t, v, dl) == t.url \in v \/ t.depth >= dl

SkipTask(t, v, dl) == t.url \in v \/ t.depth > dl

\* Mutant: <= for <.
ShouldExpand_le(d, dl) == d <= dl

\* if current_depth < depth
ShouldExpand(d, dl) == d < dl

\* queue.pop(0): the position taken, and the queue left.
PopIndex_last(q) == Len(q)

PopIndex(q) == 1

\* Mutant: queue[0] read, not popped.
RemoveAt_keep(q, i) == q

RemoveAt(q, i) == SubSeq(q, 1, i - 1) \o SubSeq(q, i + 1, Len(q))

\* Mutant: the link keeps the depth of the page it was found on.
EnqueueMain_sameDepth(q, links, v, d) ==
    q \o Tasks(SelectSeq(links, LAMBDA l : l \notin v), d)

\* main.py: for link in links: if link not in visited: queue.append(...)
EnqueueMain(q, links, v, d) ==
    q \o Tasks(SelectSeq(links, LAMBDA l : l \notin v), d + 1)

\* crawler.py: if urlparse(link).netloc == domain and link not in visited
EnqueueCrawler(q, links, v, d, dom) ==
    q \o Tasks(SelectSeq(links, LAMBDA l : l.netloc = dom /\ l \notin v), d + 1)

\* The extraction modes of main.py extract_data, and a name that is none of
\* them.
ValidModes == {"links", "images", "text", "metadata"}
ModeNames  == ValidModes \cup {"bogus"}

\* main.py extract_data(html, data_type): the keys of the dict it returns.
extract_data(dt) == IF dt \in ValidModes THEN {dt} ELSE {}

\* Mutant: visited_urls a class attribute, one set for all instances.
InstanceAttr_class(own, live) == live

\* self.visited_urls = set() in __init__: the set an instance resumes with is
\* its own, not the one the coroutine that ran before it worked on.
InstanceAttr(own, live) == own

\* results[url] = page_data on a dict kept in insertion order
DictSet(r, u) == IF \E i \in 1..Len(r) : r[i] = u THEN r ELSE Append(r, u)

----------------------------------------------------------------------------
VARIABLES
    impl,         \* "main" or "crawler": the class of the instance
    max_pages,    \* self.max_pages
    visited_urls, \* self.visited_urls
    session,      \* self.session: "none", "open" or "closed"
    scoped,       \* the running crawl is inside an "async with" that closes the session
    results,      \* main.py: the local dict's keys, in order; crawler.py: self.results (urls)
    queue,        \* the local FIFO of tasks
    start_url,    \* argument of the running (or last) crawl
    depth,        \* argument of the running (or last) crawl
    domain,       \* crawler.py: urlparse(start_url).netloc
    cur,          \* url, current_depth: the task dequeued last (the start task before that)
    pc,           \* "idle", "loop", "fetch", "sleep", "done"
    nFetch,       \* history: the number of fetch attempts of this run
    fetched,      \* history: the URLs this run attempted to fetch
    refetched,    \* history: this run attempted some URL a second time
    served,       \* history: the URLs a fetch of this run got a status 200 for
    found,        \* history: the edges <<page, link>> this run enqueued
    nExtract,     \* history: calls of extract_links in this run
    slept,        \* history: asyncio.sleep ran since the last fetch attempt
    data_type,    \* main.py: argument of the running (or last) crawl
    empties,      \* history: records of this run that extract_data left empty
    det,          \* environment: the site is unchanged and its outcomes deterministic
    dtypes,       \* environment: the data_type names callers pass
    site,         \* environment: the answers the site has given (kept when det)
    prev,         \* history (kept when det): inputs and returned result of the invocation before
    other         \* <<>>, or the state of a second instance whose coroutine is suspended

vars == <<impl, max_pages, visited_urls, session, scoped, results, queue,
          start_url, depth, domain, cur, pc, nFetch, fetched, refetched, served, found, nExtract,
          slept, data_type, empties, det, dtypes, site, prev, other>>

\* __init__ (both classes)
Constructed ==
    /\ impl \in {"main", "crawler"}
    /\ max_pages \in 0..MaxPages
    /\ visited_urls = {}
    /\ session = "none"
    /\ scoped = FALSE
    /\ results = <<>>
    /\ queue = <<>>
    /\ start_url = HomeA
    /\ depth = 0
    /\ domain = ""
    /\ cur = Task(HomeA, 0)
    /\ pc = "idle"
    /\ nFetch = 0
    /\ fetched = {}
    /\ refetched = FALSE
    /\ served = {}
    /\ found = {}
    /\ nExtract = 0
    /\ slept = FALSE
    /\ data_type = "links"
    /\ empties = {}
    /\ site = {}
    /\ prev = <<>>

\* One instance, a caller that passes a valid mode, a site free to change
\* between fetches.
Init ==
    /\ Constructed
    /\ det = FALSE
    /\ dtypes = {"links"}
    /\ other = <<>>

\* One instance, callers that pass any mode name.
InitModes ==
    /\ Constructed
    /\ det = FALSE
    /\ dtypes = ModeNames
    /\ other = <<>>

\* One instance, an unchanged site with deterministic fetch outcomes.
InitSite ==
    /\ Constructed
    /\ det = TRUE
    /\ dtypes = {"links"}
    /\ other = <<>>

\* crawler.py "async with crawler:" by the caller, between crawls.
AEnter ==
    /\ impl = "crawler"
    /\ pc \in {"idle", "done"}
    /\ session' = "open"
    /\ UNCHANGED <<impl, max_pages, det, dtypes, other, visited_urls, scoped, results, queue,
                   start_url, depth, domain, cur, pc, nFetch, fetched, refetched, served, found, nExtract,
                   slept, data_type, empties, site, prev>>

AExit ==
    /\ impl = "crawler"
    /\ pc \in {"idle", "done"}
    /\ session = "open"
    /\ session' = "closed"
    /\ UNCHANGED <<impl, max_pages, det, dtypes, other, visited_urls, scoped, results, queue,
                   start_url, depth, domain, cur, pc, nFetch, fetched, refetched, served, found, nExtract,
                   slept, data_type, empties, site, prev>>

\* The invocation that returned last: its inputs and the result it returned.
Invocation == [start_url |-> start_url, depth |-> depth, data_type |-> data_type,
               results |-> results]

\* The inputs a caller passes: with a deterministic site, the caller repeats
\* the invocation before.
Admitted(u, dl) ==
    /\ det /\ pc = "done" => u = start_url /\ dl = depth
    /\ other # <<>> => u \in PairURLs /\ dl <= PairDepth

\* Bookkeeping at the start of an invocation.  With a deterministic site the
\* invocation before is remembered, and an instance is invoked twice at most;
\* of two instances each is invoked once.
Begun ==
    /\ det => prev = <<>>
    /\ other # <<>> => pc = "idle"
    /\ prev' = IF det /\ pc = "done" THEN <<Invocation>> ELSE prev
    /\ slept' = FALSE
    /\ empties' = {}
    /\ nFetch' = 0
    /\ fetched' = {}
    /\ refetched' = FALSE
    /\ served' = {}
    /\ found' = {}
    /\ nExtract' = 0

\* main.py crawl up to the first loop test: results = {}, the queue, __aenter__.
StartMain ==
    /\ impl = "main"
    /\ pc \in {"idle", "done"}
    /\ \E u \in URLs, dl \in 0..MaxDepth :
        /\ Admitted(u, dl)
        /\ start_url' = u
        /\ depth' = dl
        /\ queue' = <<Task(u, 0)>>
        /\ cur' = Task(u, 0)
    /\ \E dt \in dtypes : data_type' = dt
    /\ results' = <<>>
    /\ session' = "open"
    /\ scoped' = TRUE
    /\ pc' = "loop"
    /\ Begun
    /\ UNCHANGED <<impl, max_pages, det, dtypes, other, visited_urls, domain, site>>

\* crawler.py crawl and _crawl up to the first loop test.
StartCrawler ==
    /\ impl = "crawler"
    /\ pc \in {"idle", "done"}
    /\ \E u \in URLs, dl \in 0..MaxDepth :
        /\ Admitted(u, dl)
        /\ start_url' = u
        /\ depth' = dl
        /\ domain' = u.netloc
        /\ queue' = <<Task(u, 0)>>
        /\ cur' = Task(u, 0)
    /\ IF session = "none"
         THEN session' = "open" /\ scoped' = TRUE
         ELSE session' = session /\ scoped' = FALSE
    /\ visited_urls' = {}
    /\ results' = <<>>
    /\ pc' = "loop"
    /\ Begun
    /\ UNCHANGED <<impl, max_pages, det, dtypes, other, data_type, site>>

\* The loop test fails: leave the "async with" and return the result.
Return ==
    /\ pc = "loop"
    /\ ~LoopCond(queue, visited_urls, max_pages)
    /\ session' = IF scoped THEN "closed" ELSE session
    /\ scoped' = FALSE
    /\ pc' = "done"
    /\ UNCHANGED <<impl, max_pages, det, dtypes, other, visited_urls, results, queue, start_url,
                   depth, domain, cur, nFetch, fetched, refetched, served, found, nExtract,
                   slept, data_type, empties, site, prev>>

\* queue.pop(0), the skip test, and (main.py) visited_urls.add(url).
Dequeue ==
    /\ pc = "loop"
    /\ LoopCond(queue, visited_urls, max_pages)
    /\ cur' = queue[PopIndex(queue)]
    /\ queue' = RemoveAt(queue, PopIndex(queue))
    /\ IF SkipTask(cur', visited_urls, depth)
         THEN pc' = "loop" /\ UNCHANGED visited_urls
         ELSE /\ pc' = "fetch"
              /\ visited_urls' = IF impl = "main"
                                   THEN visited_urls \cup {cur'.url}
                                   ELSE visited_urls
    /\ UNCHANGED <<impl, max_pages, det, dtypes, other, session, scoped, results, start_url,
                   depth, domain, nFetch, fetched, refetched, served, found, nExtract,
                   slept, data_type, empties, site, prev>>

\* Bookkeeping of one fetch attempt and its answer.
Logged(resp) ==
    /\ nFetch' = nFetch + 1
    /\ fetched' = fetched \cup {cur.url}
    /\ refetched' = (refetched \/ cur.url \in fetched)
    /\ served' = IF resp.kind = "ok200" THEN served \cup {cur.url} ELSE served
    /\ site' = IF det /\ session = "open" THEN site \cup {<<cur.url, resp>>} ELSE site
    /\ slept' = FALSE

Edges(q, q2) == {<<cur.url, q2[i].url>> : i \in (Len(q) + 1)..Len(q2)}

\* main.py: html = await self.fetch_url(url) and the rest of the iteration
\* up to the sleep ("continue" on a falsy html skips the sleep).
FetchMain ==
    /\ impl = "main"
    /\ pc = "fetch"
    /\ \E resp \in Answers(session, site, cur.url) :
        LET html == fetch_url(resp) IN
        /\ Logged(resp)
        /\ IF ~Truthy(html)
             THEN /\ pc' = "loop"
                  /\ UNCHANGED <<results, queue, found, nExtract, empties>>
             ELSE /\ results' = DictSet(results, cur.url)
                  /\ empties' = IF extract_data(data_type) = {}
                                  THEN empties \cup {cur.url} ELSE empties
                  /\ IF ShouldExpand(cur.depth, depth)
                       THEN LET q2 == EnqueueMain(queue, extract_links_main(html, cur.url),
                                                  visited_urls, cur.depth)
                            IN /\ queue' = q2
                               /\ found' = found \cup Edges(queue, q2)
                               /\ nExtract' = nExtract + 1
                       ELSE UNCHANGED <<queue, found, nExtract>>
                  /\ pc' = "sleep"
    /\ UNCHANGED <<impl, max_pages, det, dtypes, other, visited_urls, session, scoped, start_url,
                   depth, domain, cur, data_type, prev>>

\* crawler.py: html = await self.fetch(url) and the rest of the iteration up
\* to the sleep.
FetchCrawler ==
    /\ impl = "crawler"
    /\ pc = "fetch"
    /\ \E resp \in Answers(session, site, cur.url) :
        LET html == fetch_url(resp) IN
        /\ Logged(resp)
        /\ IF Truthy(html)
             THEN /\ visited_urls' = visited_urls \cup {cur.url}
                  /\ results' = Append(results, cur.url)
                  /\ IF ShouldExpand(cur.depth, depth)
                       THEN LET q2 == EnqueueCrawler(queue, extract_links_crawler(html, cur.url),
                                                     visited_urls \cup {cur.url}, cur.depth,
                                                     domain)
                            IN /\ queue' = q2
                               /\ found' = found \cup Edges(queue, q2)
                               /\ nExtract' = nExtract + 1
                       ELSE UNCHANGED <<queue, found, nExtract>>
             ELSE UNCHANGED <<visited_urls, results, queue, found, nExtract>>
        /\ pc' = "sleep"
    /\ UNCHANGED <<impl, max_pages, det, dtypes, other, session, scoped, start_url, depth, domain, cur,
                   data_type, empties, prev>>

\* await asyncio.sleep(0.5)
Sleep ==
    /\ pc = "sleep"
    /\ pc' = "loop"
    /\ slept' = TRUE
    /\ UNCHANGED <<impl, max_pages, det, dtypes, other, visited_urls, session, scoped, results, queue,
                   start_url, depth, domain, cur, nFetch, fetched, refetched, served, found, nExtract,
                   data_type, empties, site, prev>>

Next ==
    \/ AEnter
    \/ AExit
    \/ StartMain
    \/ StartCrawler
    \/ Return
    \/ Dequeue
    \/ FetchMain
    \/ FetchCrawler
    \/ Sleep

Spec == Init /\ [][Next]_vars

\* Callers that pass any mode name.
SpecModes == InitModes /\ [][Next]_vars

\* The steps of a running crawl: the loop test, the pop, the fetch and what
\* follows it, the sleep.
Step == Return \/ Dequeue \/ FetchMain \/ FetchCrawler \/ Sleep

\* A caller that only calls crawl (no "async with crawler:" of its own).
NextCrawl == StartMain \/ StartCrawler \/ Step

SpecCrawl == Init /\ [][NextCrawl]_vars

\* The event loop resumes a crawl whose fetch or sleep has returned.
SpecLive == Spec /\ WF_vars(Step)

\* At most two invocations of one instance against an unchanged site.
SpecSite == InitSite /\ [][Next]_vars

\* An instance of main.py's class against an unchanged site.
InitMainSite == InitSite /\ impl = "main"

NextMain == StartMain \/ Return \/ Dequeue \/ FetchMain \/ Sleep

SpecMainSite == InitMainSite /\ [][NextMain]_vars

----------------------------------------------------------------------------
\* Two instances on one event loop.  The variables above are those of the
\* instance whose coroutine runs; "other" holds those of the instance whose
\* coroutine is suspended.

\* Both coroutines are inside their crawl.
BothRunning == pc \in {"fetch", "sleep"} /\ other[1].pc \in {"fetch", "sleep"}

\* The state of the running instance, as it is parked.
Suspended ==
    [max_pages |-> max_pages,
     visited_urls |-> visited_urls,
     session |-> session,
     scoped |-> scoped,
     results |-> results,
     queue |-> queue,
     start_url |-> start_url,
     depth |-> depth,
     domain |-> domain,
     cur |-> cur,
     pc |-> pc,
     nFetch |-> nFetch,
     fetched |-> fetched,
     refetched |-> refetched,
     served |-> served,
     found |-> found,
     nExtract |-> nExtract,
     slept |-> slept,
     data_type |-> data_type,
     empties |-> empties,
     prev |-> prev,
     overlap |-> other[1].overlap \/ BothRunning]

\* A second instance right after WebCrawler(max_pages=mp).
Instance(mp) ==
    [max_pages |-> mp, visited_urls |-> {}, session |-> "none", scoped |-> FALSE,
     results |-> <<>>, queue |-> <<>>, start_url |-> HomeA, depth |-> 0, domain |-> "",
     cur |-> Task(HomeA, 0), pc |-> "idle", nFetch |-> 0, fetched |-> {},
     refetched |-> FALSE, served |-> {}, found |-> {}, nExtract |-> 0, slept |-> FALSE,
     data_type |-> "links", empties |-> {}, prev |-> <<>>, overlap |-> FALSE]

\* Two fresh main.py instances (one per request of crawl_website) against an
\* unchanged site.
InitTwo ==
    /\ Constructed
    /\ impl = "main"
    /\ max_pages <= PairPages
    /\ det = TRUE
    /\ dtypes = {"links"}
    /\ \E mp \in 0..PairPages : other = <<Instance(mp)>>

\* The running coroutine is suspended in "await fetch_url" or "await sleep"
\* (or has not begun, or has returned) and the event loop resumes the other.
Switch ==
    /\ other # <<>>
    /\ pc \in {"idle", "fetch", "sleep", "done"}
    /\ other[1].pc # "done"
    /\ other' = <<Suspended>>
    /\ visited_urls' = InstanceAttr(other[1].visited_urls, visited_urls)
    /\ max_pages' = other[1].max_pages
    /\ session' = other[1].session
    /\ scoped' = other[1].scoped
    /\ results' = other[1].results
    /\ queue' = other[1].queue
    /\ start_url' = other[1].start_url
    /\ depth' = other[1].depth
    /\ domain' = other[1].domain
    /\ cur' = other[1].cur
    /\ pc' = other[1].pc
    /\ nFetch' = other[1].nFetch
    /\ fetched' = other[1].fetched
    /\ refetched' = other[1].refetched
    /\ served' = other[1].served
    /\ found' = other[1].found
    /\ nExtract' = other[1].nExtract
    /\ slept' = other[1].slept
    /\ data_type' = other[1].data_type
    /\ empties' = other[1].empties
    /\ prev' = other[1].prev
    /\ UNCHANGED <<impl, det, dtypes, site>>

NextTwo == NextMain \/ Switch

SpecTwo == InitTwo /\ [][NextTwo]_vars

----------------------------------------------------------------------------
\* Vocabulary of the properties.

Keys == {results[i] : i \in 1..Len(results)}

EndsIn(u, ext) == u.path[Len(u.path)] = ext

\* The URLs within k hops of start_url along the links this run enqueued.
RECURSIVE ReachWithin(_)
ReachWithin(k) ==
    IF k = 0 THEN {start_url}
    ELSE LET R == ReachWithin(k - 1)
         IN R \cup {e[2] : e \in {f \in found : f[1] \in R}}

\* The state right after crawl set up its queue.
AtRunStart == pc = "loop" /\ queue = <<Task(start_url, 0)>>

----------------------------------------------------------------------------
\* C1: in every reachable state the visited set holds at most max_pages
\* URLs, and the result returned at completion has at most max_pages entries.
C1_VisitedWithinBudget ==
    /\ Cardinality(visited_urls) <= max_pages
    /\ pc = "done" => Len(results) <= max_pages

\* A run that stopped on the page budget with work left in the queue.
C1_Witness ==
    /\ pc = "done"
    /\ max_pages >= 2
    /\ Len(results) = max_pages
    /\ queue # <<>>

\* C2: a dequeued URL that is not skipped is in the visited set before its
\* fetch is attempted, so the fetch attempts of a run never exceed max_pages
\* and no URL is fetched a second time in the run.
C2_VisitedBeforeFetch ==
    /\ pc = "fetch" => cur.url \in visited_urls
    /\ nFetch <= max_pages
    /\ ~refetched

\* C3: every task enqueued after the initial one has the start URL's host
\* and is not in the visited set at the moment it is enqueued.
C3_EnqueuedSameHostUnvisited ==
    [][pc = "fetch" =>
         \A i \in (Len(queue) + 1)..Len(queue') :
             /\ queue'[i].url.netloc = start_url.netloc
             /\ queue'[i].url \notin visited_urls']_vars

\* main.py enqueued a link found on a page other than the start page.
C3_Witness ==
    /\ impl = "main"
    /\ pc = "sleep"
    /\ cur.url # start_url
    /\ \E i \in 1..Len(queue) : <<cur.url, queue[i].url>> \in found
                                   /\ queue[i].depth = cur.depth + 1

\* C4: no entry of the returned result is stored under a URL of another host
\* than the start URL's, nor under a URL whose path ends in .pdf.
C4_NoForeignNoPdfKeys ==
    pc = "done" =>
        \A u \in Keys : u.netloc = start_url.netloc /\ ~EndsIn(u, ".pdf")

\* C5: every task enqueued or fetched carries a depth in 0..depth_limit, and
\* every key of the result is within depth_limit hops of start_url along
\* same-domain links found on fetched pages.
C5_WithinDepthLimit ==
    /\ \A i \in 1..Len(queue) : queue[i].depth \in 0..depth
    /\ pc \in {"fetch", "sleep"} => cur.depth \in 0..depth
    /\ Keys \subseteq ReachWithin(depth)

\* A returned result with a key that needs two hops.
C5_Witness ==
    /\ pc = "done"
    /\ depth = 2
    /\ \E u \in Keys : u \notin ReachWithin(1)

\* C6: breadth-first order.  The depths in the queue never decrease from
\* front to back and differ by at most 1; a task being fetched is no deeper
\* than any queued task; every record is appended to the result when, and
\* in the order in which, its URL was dequeued.
C6_BreadthFirst ==
    /\ [](\A i, j \in 1..Len(queue) :
            i < j => /\ queue[i].depth <= queue[j].depth
                     /\ queue[j].depth <= queue[i].depth + 1)
    /\ [](pc = "fetch" =>
            \A i \in 1..Len(queue) : /\ cur.depth <= queue[i].depth
                                      /\ queue[i].depth <= cur.depth + 1)
    /\ [][(results' # results /\ results' # <<>>) =>
              (pc = "fetch" /\ results' = Append(results, cur.url))]_vars
    /\ [][(pc = "loop" /\ pc' # "done") => cur'.depth >= cur.depth]_vars

\* A page of depth 2 is being fetched, after the start page and a page of
\* depth 1 were stored and while another task of depth 2 waits.
C6_Witness ==
    /\ pc = "fetch"
    /\ cur.depth = 2
    /\ Len(results) = 2
    /\ queue # <<>>

\* C7: with depth_limit = 0 the result has at most one entry, the start URL,
\* and extract_links is never called.
C7_DepthZero ==
    depth = 0 =>
        /\ Len(results) <= 1
        /\ Keys \subseteq {start_url}
        /\ nExtract = 0

\* A crawl with depth 0 returned the start page.
C7_Witness ==
    /\ pc = "done"
    /\ depth = 0
    /\ max_pages >= 2
    /\ results = <<start_url>>

\* C8: with max_pages = 1 a crawl run makes exactly one fetch attempt.
C8_OneFetchWhenBudgetOne ==
    pc = "done" /\ max_pages = 1 => nFetch = 1

\* C9: a crawl returns only when the queue is empty or the budget is used
\* up, a URL whose fetch failed has no entry, and every page fetched
\* successfully (status 200) in the run is in the returned result.
C9_FailuresSkippedOnly ==
    pc = "done" /\ impl = "main" =>
        /\ ~LoopCond(queue, visited_urls, max_pages)
        /\ Keys \subseteq served
        /\ served \subseteq Keys

\* C10: every crawl invocation starts from an empty visited set and an empty
\* result.
C10_FreshStatePerRun ==
    AtRunStart => visited_urls = {} /\ results = <<>>


\* The invocation before had the same inputs as this one.
SameInputs ==
    /\ prev # <<>>
    /\ prev[1].start_url = start_url
    /\ prev[1].depth = depth
    /\ prev[1].data_type = data_type

\* C11: a crawl with the inputs of the crawl before, against an unchanged
\* site with deterministic fetch outcomes, returns the same result, also on
\* the same instance.
C11_Idempotent ==
    pc = "done" /\ SameInputs => results = prev[1].results


\* C12: a crawl invoked with a mode name outside {links, images, text,
\* metadata} fails before any fetch: no fetch occurs and no result is returned.
C12_InvalidModeFails ==
    impl = "main" /\ data_type \notin ValidModes =>
        /\ nFetch = 0
        /\ pc \notin {"fetch", "sleep", "done"}

\* What the object returned by the invocation before holds now: crawler.py
\* returned self.results itself, main.py a dict the instance keeps no
\* reference to.
ReturnedObject == IF impl = "crawler" THEN results ELSE prev[1].results

\* C13: no later crawl on the same instance changes the contents of a result
\* already returned.
C13_ReturnedResultKept ==
    prev # <<>> => ReturnedObject = prev[1].results

\* C14: the session is open at every fetch of every invocation, and released
\* when the invocation completes.
C14_SessionPerInvocation ==
    /\ pc = "fetch" => session = "open"
    /\ pc = "done" => session = "closed"

\* C15: between two consecutive fetch attempts of a run the sleep is executed
\* at least once.
C15_SleepBetweenFetches ==
    pc = "fetch" /\ nFetch > 0 => slept

Running == {"loop", "fetch", "sleep"}

\* C16: every crawl run terminates, going Idle -> Running -> Done, and when
\* it returns the queue is empty or the page budget is used up.
C16_Terminates ==
    /\ (pc \in Running) ~> (pc = "done")
    /\ [](pc \in {"idle", "done"} \cup Running)
    /\ [][/\ pc = "idle" => pc' \in {"idle"} \cup Running
          /\ pc \in Running => pc' \in Running \cup {"done"}]_vars
    /\ [](pc = "done" => queue = <<>> \/ Cardinality(visited_urls) >= max_pages)

\* A run that ended on an empty queue, within the budget, after two pages.
C16_Witness ==
    /\ pc = "done"
    /\ queue = <<>>
    /\ Len(results) >= 2
    /\ Cardinality(visited_urls) < max_pages

----------------------------------------------------------------------------
\* The valid links of page u, as extract_links reads them from the page the
\* site answers with.
SiteLinks(u) ==
    UNION {{extract_links_main(fetch_url(r), u)[i] :
                i \in 1..Len(extract_links_main(fetch_url(r), u))} :
           r \in {a \in Recorded(site, u) : Truthy(fetch_url(a))}}

\* The URLs within k hops of start_url along valid links of the site.
RECURSIVE ReachSite(_)
ReachSite(k) ==
    IF k = 0 THEN {start_url}
    ELSE LET R == ReachSite(k - 1)
         IN R \cup UNION {SiteLinks(u) : u \in R}

\* Every fetch so far got a status 200 with a non-empty body.
AllServed == \A p \in site : Truthy(fetch_url(p[2]))

\* The first crawl of a fresh main.py instance has returned, no fetch failed
\* and the budget did not bind.
BudgetFree ==
    /\ impl = "main" /\ det /\ prev = <<>> /\ pc = "done"
    /\ AllServed
    /\ Cardinality(ReachSite(depth)) <= max_pages

\* C18: on a fresh main.py instance, when every fetch succeeds with a non-empty
\* body and at most max_pages URLs are reachable from start_url within depth
\* hops along valid links, the keys of the returned result are exactly the
\* reachable URLs.
C18_CompleteWhenBudgetFree == BudgetFree => Keys = ReachSite(depth)

\* Three pages returned by a crawl of depth 2 in which some URL was enqueued
\* from two pages.
C18_Witness ==
    /\ BudgetFree
    /\ depth = 2
    /\ Len(results) = 3
    /\ \E e \in found, f \in found : e[2] = f[2] /\ e[1] # f[1]

----------------------------------------------------------------------------
\* What fetch_url returns for u on the unchanged site (a page the site was
\* never asked for counts as a failed fetch).
SiteHtml(u) ==
    IF Recorded(site, u) = {} THEN NoneVal
    ELSE fetch_url(CHOOSE r \in Recorded(site, u) : TRUE)

\* The loop of main.py crawl run to its end with no other coroutine around:
\* q the queue, v the visited set, r the result, dl and mp the limits.
RECURSIVE CrawlAlone(_, _, _, _, _)
CrawlAlone(q, v, r, dl, mp) ==
    IF ~LoopCond(q, v, mp) THEN r
    ELSE LET t  == q[PopIndex(q)]
             q1 == RemoveAt(q, PopIndex(q))
             v1 == v \cup {t.url}
             html == SiteHtml(t.url)
         IN IF SkipTask(t, v, dl) THEN CrawlAlone(q1, v, r, dl, mp)
            ELSE IF ~Truthy(html) THEN CrawlAlone(q1, v1, r, dl, mp)
            ELSE CrawlAlone(IF ShouldExpand(t.depth, dl)
                              THEN EnqueueMain(q1, extract_links_main(html, t.url),
                                               v1, t.depth)
                              ELSE q1,
                            v1, DictSet(r, t.url), dl, mp)

\* The result a fresh instance returns for the inputs of i when it runs alone.
AloneResult(i) == CrawlAlone(<<Task(i.start_url, 0)>>, {}, <<>>, i.depth, i.max_pages)

\* C17: of two crawls interleaved at their fetch and sleep suspension points
\* on two distinct instances, each returns the result it returns when run
\* alone.
C17_NoInterference ==
    /\ other # <<>> /\ pc = "done" => results = AloneResult(Suspended)
    /\ other # <<>> /\ other[1].pc = "done" => other[1].results = AloneResult(other[1])

\* Both crawls have returned a page, they started from the same URL, and
\* there was a time when both were suspended inside their loops.
C17_Witness ==
    /\ other # <<>>
    /\ pc = "done" /\ other[1].pc = "done"
    /\ other[1].overlap
    /\ start_url = other[1].start_url
    /\ Len(results) = 2 /\ Len(other[1].results) >= 1

====
